---- MODULE Spec2Model ----
(***************************************************************************)
(* RazerHeatMap: the key-press heat map engine (heatmap.py, HeatMapper)    *)
(* and the lighting server it streams colours to (heatmap_server.py,       *)
(* HeatMapServer).                                                         *)
(*                                                                         *)
(* Strings are sequences of one-character strings, so that str.lower,      *)
(* str.startswith, str(tuple), json.dumps, json.loads and ast.literal_eval *)
(* are computed character by character and not assumed.  Python dicts are  *)
(* sequences of <<key, value>> pairs in insertion order.  Floats are fixed *)
(* point numbers with Scale units to 1.0; NaN is a value of its own.       *)
(***************************************************************************)
EXTENDS Integers, Sequences, FiniteSets, TLC

(***************************************************************************)
(* Bounds of the model.                                                    *)
(***************************************************************************)
\* release events handled in one run
MaxEvents == 3
\* refresh_interval_secs the engine is constructed with (seconds)
RefreshInterval == 3

\* fixed point: Scale units are 1.0
Scale == 10 ^ 4

(***************************************************************************)
(* Characters and strings.                                                 *)
(***************************************************************************)
UpperChars == <<"A", "B", "C", "D", "E", "F", "G", "H", "I", "J", "K", "L", "M",
                "N", "O", "P", "Q", "R", "S", "T", "U", "V", "W", "X", "Y", "Z">>

LowerChars == <<"a", "b", "c", "d", "e", "f", "g", "h", "i", "j", "k", "l", "m",
                "n", "o", "p", "q", "r", "s", "t", "u", "v", "w", "x", "y", "z">>

DigitChars == <<"0", "1", "2", "3", "4", "5", "6", "7", "8", "9">>

\* str.lower on one character
LowerChar(ch) ==
    IF \E i \in 1..Len(UpperChars) : UpperChars[i] = ch
    THEN LowerChars[CHOOSE i \in 1..Len(UpperChars) : UpperChars[i] = ch]
    ELSE ch

\* str.lower
Lower(s) == [i \in 1..Len(s) |-> LowerChar(s[i])]

\* s.startswith(p)
StartsWith(s, p) == Len(s) >= Len(p) /\ SubSeq(s, 1, Len(p)) = p

\* on_key_release: the key name the Layout Map is asked for
NormalizeKey(key) == IF ~StartsWith(key, <<"K", "e", "y">>) THEN Lower(key) ELSE key

(***************************************************************************)
(* Ordered dicts.                                                          *)
(***************************************************************************)
DictKeys(d) == {d[i][1] : i \in 1..Len(d)}

DictHas(d, k) == \E i \in 1..Len(d) : d[i][1] = k

DictGet(d, k) == d[CHOOSE i \in 1..Len(d) : d[i][1] = k][2]

\* d[k] = v: in place for a key the dict has, appended for a new one
DictSet(d, k, v) ==
    IF DictHas(d, k)
    THEN LET i == CHOOSE j \in 1..Len(d) : d[j][1] = k
         IN  SubSeq(d, 1, i - 1) \o << <<k, v>> >> \o SubSeq(d, i + 1, Len(d))
    ELSE Append(d, <<k, v>>)

DictValues(d) == [i \in 1..Len(d) |-> d[i][2]]

(***************************************************************************)
(* The engine's configuration: the keyboard layout file and COLOR_MAPS.    *)
(***************************************************************************)
KeyF2 == <<"K", "e", "y", ".", "f", "2">>
KeyF3 == <<"K", "e", "y", ".", "f", "3">>
KeyF7 == <<"K", "e", "y", ".", "f", "7">>

\* key_to_location_map after the constructor made tuples of the locations:
\* a wide key, a location two keys share, a location listed twice and a key
\* without a location
key_to_location_map ==
    << << <<"a">>, << <<0, 0>> >> >>,
       << <<"b">>, << <<0, 1>>, <<1, 0>> >> >>,
       << KeyF2,   << <<1, 0>> >> >>,
       << KeyF3,   << <<0, 0>>, <<0, 0>> >> >>,
       << KeyF7,   << >> >> >>

\* the keys the listener reports
Keys == { <<"a">>, <<"A">>, <<"b">>, <<"x">>, KeyF2, KeyF3, KeyF7 }

COLOR_MAPS == <<"jet", "turbo", "hot", "bwr", "seismic", "Spectral", "gnuplot", "brg",
                "gist_rainbow", "rainbow">>

\* self.color_map_name, always COLOR_MAPS[self.color_map_index]
ColorMapName(index) == COLOR_MAPS[index + 1]

(***************************************************************************)
(* Floats: [kind, val] with val in units of 1/Scale.                       *)
(***************************************************************************)
Num(v) == [kind |-> "num", val |-> v]

NaN == [kind |-> "nan", val |-> 0]

Inf == [kind |-> "inf", val |-> 0]

\* float(count)
FromInt(n) == n * Scale

RECURSIVE IsqrtIter(_, _)
\* Newton's iteration down to the integer square root of n
IsqrtIter(n, x) ==
    LET y == (x + n \div x) \div 2
    IN  IF y >= x THEN x ELSE IsqrtIter(n, y)

\* np.sqrt on a non-negative float: the iteration starts above the root
FSqrt(v) ==
    IF v = 0 THEN 0 ELSE IsqrtIter(v * Scale, IF v > Scale THEN v ELSE Scale)

\* numpy's a / b on floats: 0 / 0 is nan and x / 0 is inf (a warning, no exception)
FDiv(a, b) ==
    IF b = 0
    THEN (IF a = 0 THEN NaN ELSE Inf)
    ELSE Num((a * Scale) \div b)

SeqMin(s) == CHOOSE m \in {s[i] : i \in 1..Len(s)} : \A i \in 1..Len(s) : m <= s[i]

SeqMax(s) == CHOOSE m \in {s[i] : i \in 1..Len(s)} : \A i \in 1..Len(s) : m >= s[i]

(***************************************************************************)
(* The palettes (matplotlib colormaps): a lookup table of 256 RGB floats   *)
(* per name.  The table is the library's; it is given here by its two end  *)
(* colours with the entries between them interpolated, and by the colour   *)
(* for a bad (nan) input, which is black.                                  *)
(***************************************************************************)
LutLow ==
    << <<0, 0, 5000>>, <<1900, 718, 2322>>, <<416, 0, 0>>, <<0, 0, 10000>>,
       <<0, 0, 3000>>, <<6196, 39, 2588>>, <<0, 0, 0>>, <<0, 0, 10000>>,
       <<10000, 0, 1600>>, <<5000, 0, 10000>> >>

LutHigh ==
    << <<5000, 0, 0>>, <<4796, 158, 106>>, <<10000, 10000, 10000>>, <<10000, 0, 0>>,
       <<5000, 0, 0>>, <<3686, 3098, 6353>>, <<10000, 10000, 0>>, <<0, 10000, 0>>,
       <<10000, 0, 7500>>, <<10000, 0, 0>> >>

LutBad == <<0, 0, 0>>

\* entry i (0..255) of the table of palette index
LutChannel(index, i, c) ==
    LutLow[index + 1][c] + ((LutHigh[index + 1][c] - LutLow[index + 1][c]) * i) \div 255

Lut(index, i) == <<LutChannel(index, i, 1), LutChannel(index, i, 2), LutChannel(index, i, 3)>>

\* self.color_map(x)[0:3] for a float x: x * 256 truncated, clipped to the table
ColorMap(index, x) ==
    IF x.kind = "nan" THEN LutBad
    ELSE IF x.kind = "inf" THEN Lut(index, 255)
    ELSE IF x.val < 0 THEN Lut(index, 0)
    ELSE IF (x.val * 256) \div Scale > 255 THEN Lut(index, 255)
    ELSE Lut(index, (x.val * 256) \div Scale)

\* [int(element * 255) for element in rgb]
ToRGB(rgb) == <<(rgb[1] * 255) \div Scale, (rgb[2] * 255) \div Scale, (rgb[3] * 255) \div Scale>>

\* palette(x) as the engine stores it
Palette(index, x) == ToRGB(ColorMap(index, x))

\* __init_color_map: self.color_map(0) with the integer 0 is entry 0 of the table
BaseColor(index) == ToRGB(Lut(index, 0))

(***************************************************************************)
(* The wire format: json.dumps of {str(location): [r, g, b]}.              *)
(***************************************************************************)
RECURSIVE IntStr(_)
\* str(n) for n >= 0
IntStr(n) ==
    IF n < 10 THEN <<DigitChars[n + 1]>>
    ELSE IntStr(n \div 10) \o <<DigitChars[(n % 10) + 1]>>

\* str(k) for a tuple of two integers
TupleStr(k) == <<"(">> \o IntStr(k[1]) \o <<",", " ">> \o IntStr(k[2]) \o <<")">>

RECURSIVE JsonItems(_, _)
\* the elements of a JSON array of integers from position i, separated by ", "
JsonItems(v, i) ==
    IF i > Len(v) THEN <<>>
    ELSE (IF i > 1 THEN <<",", " ">> ELSE <<>>) \o IntStr(v[i]) \o JsonItems(v, i + 1)

JsonList(v) == <<"[">> \o JsonItems(v, 1) \o <<"]">>

RECURSIVE JsonMembers(_, _)
\* the members of a JSON object from position i: "key": value, separated by ", "
JsonMembers(d, i) ==
    IF i > Len(d) THEN <<>>
    ELSE (IF i > 1 THEN <<",", " ">> ELSE <<>>)
         \o <<"\"">> \o d[i][1] \o <<"\"", ":", " ">> \o JsonList(d[i][2])
         \o JsonMembers(d, i + 1)

\* json.dumps of a dict of string keys and integer lists
JsonDumps(d) == <<"{">> \o JsonMembers(d, 1) \o <<"}">>

RECURSIVE StrKeys(_, _, _)
\* {str(k): colors[k] for k in colors}: a later equal key replaces the value in place
StrKeys(colors, i, acc) ==
    IF i > Len(colors) THEN acc
    ELSE StrKeys(colors, i + 1, DictSet(acc, TupleStr(colors[i][1]), colors[i][2]))

\* __send_colors_to_server: the document handed to sendall
Encode(colors) == JsonDumps(StrKeys(colors, 1, <<>>))

(***************************************************************************)
(* The server's decoder: json.loads on the bytes of one recv, then         *)
(* ast.literal_eval on every key.  A parse gives [ok, end, kind, val]: end *)
(* is the position after the value.                                        *)
(***************************************************************************)
ParseFail == [ok |-> FALSE, end |-> 0, kind |-> "none", val |-> <<>>]

Parsed(e, k, v) == [ok |-> TRUE, end |-> e, kind |-> k, val |-> v]

\* the character at position p, "" past the end
At(s, p) == IF p <= Len(s) THEN s[p] ELSE ""

IsDigit(ch) == \E i \in 1..Len(DigitChars) : DigitChars[i] = ch

DigitVal(ch) == (CHOOSE i \in 1..Len(DigitChars) : DigitChars[i] = ch) - 1

RECURSIVE SkipWs(_, _)
\* the first position from p that holds no blank
SkipWs(s, p) == IF At(s, p) = " " THEN SkipWs(s, p + 1) ELSE p

RECURSIVE SkipDigits(_, _)
\* the first position from p that holds no digit
SkipDigits(s, p) == IF IsDigit(At(s, p)) THEN SkipDigits(s, p + 1) ELSE p

\* the last digit alone
IntVal_last_digit(s, p, e, acc) == IF p >= e THEN acc ELSE DigitVal(s[e - 1])

RECURSIVE IntVal(_, _, _, _)
\* int() of the digits s[p..e-1]
IntVal(s, p, e, acc) ==
    IF p >= e THEN acc ELSE IntVal(s, p + 1, e, (acc * 10) + DigitVal(s[p]))

RECURSIVE FindQuote(_, _)
\* the position of the first double quote from p, 0 when there is none
FindQuote(s, p) ==
    IF p > Len(s) THEN 0 ELSE IF s[p] = "\"" THEN p ELSE FindQuote(s, p + 1)

\* a JSON number made of digits: 0, or a digit other than 0 and the digits after it
ParseNumber(s, p) ==
    IF At(s, p) = "0" THEN Parsed(p + 1, "num", 0)
    ELSE IF IsDigit(At(s, p))
    THEN LET e == SkipDigits(s, p) IN Parsed(e, "num", IntVal(s, p, e, 0))
    ELSE ParseFail

\* a JSON string without escapes, s[p] being its opening quote
ParseString(s, p) ==
    LET q == FindQuote(s, p + 1)
    IN  IF q = 0 THEN ParseFail ELSE Parsed(q + 1, "str", SubSeq(s, p + 1, q - 1))

RECURSIVE ParseValue(_, _)
RECURSIVE ParseElems(_, _, _)
RECURSIVE ParseMembers(_, _, _)

\* after an element v of an array: "]" ends it, "," asks for another element
AfterElem(s, v, r, acc) ==
    IF ~v.ok THEN ParseFail
    ELSE IF At(s, r) = "]" THEN Parsed(r + 1, "arr", Append(acc, v.val))
    ELSE IF At(s, r) = "," THEN ParseElems(s, SkipWs(s, r + 1), Append(acc, v.val))
    ELSE ParseFail

\* the elements of an array from position q
ParseElems(s, q, acc) ==
    LET v == ParseValue(s, q)
    IN  AfterElem(s, v, SkipWs(s, v.end), acc)

\* after the value v of the member k: "}" ends the object, "," asks for another key
AfterMember(s, k, v, r, acc) ==
    IF ~v.ok THEN ParseFail
    ELSE IF At(s, r) = "}" THEN Parsed(r + 1, "obj", DictSet(acc, k.val, v.val))
    ELSE IF At(s, r) = "," /\ At(s, SkipWs(s, r + 1)) = "\""
         THEN ParseMembers(s, SkipWs(s, r + 1), DictSet(acc, k.val, v.val))
    ELSE ParseFail

\* after the key k of a member: ":" and the value
AfterKey(s, k, c, acc) ==
    IF ~k.ok \/ At(s, c) # ":" THEN ParseFail
    ELSE LET v == ParseValue(s, SkipWs(s, c + 1))
         IN  AfterMember(s, k, v, SkipWs(s, v.end), acc)

\* the members of an object from position q, which holds the quote of a key
ParseMembers(s, q, acc) ==
    LET k == ParseString(s, q)
    IN  AfterKey(s, k, SkipWs(s, k.end), acc)

\* a JSON value at position p
ParseValue(s, p) ==
    IF At(s, p) = "{"
    THEN (IF At(s, SkipWs(s, p + 1)) = "\"" THEN ParseMembers(s, SkipWs(s, p + 1), <<>>)
          ELSE IF At(s, SkipWs(s, p + 1)) = "}" THEN Parsed(SkipWs(s, p + 1) + 1, "obj", <<>>)
          ELSE ParseFail)
    ELSE IF At(s, p) = "["
    THEN (IF At(s, SkipWs(s, p + 1)) = "]" THEN Parsed(SkipWs(s, p + 1) + 1, "arr", <<>>)
          ELSE ParseElems(s, SkipWs(s, p + 1), <<>>))
    ELSE IF At(s, p) = "\"" THEN ParseString(s, p)
    ELSE ParseNumber(s, p)

\* json.loads(data): one value with nothing but blanks around it, or ValueError
JsonLoads(s) ==
    LET v == ParseValue(s, SkipWs(s, 1))
    IN  IF v.ok /\ SkipWs(s, v.end) = Len(s) + 1 THEN v ELSE ParseFail

\* ast.literal_eval(k) for the literal of a tuple of two integers; any other string
\* is not ok
LiteralEval(k) ==
    LET a == SkipWs(k, 2)
        b == SkipDigits(k, a)
        c == SkipWs(k, b)
        d == SkipWs(k, c + 1)
        e == SkipDigits(k, d)
        f == SkipWs(k, e)
    IN  IF /\ At(k, 1) = "(" /\ b > a /\ At(k, c) = "," /\ e > d /\ At(k, f) = ")"
           /\ f = Len(k)
        THEN [ok |-> TRUE, val |-> <<IntVal(k, a, b, 0), IntVal(k, d, e, 0)>>]
        ELSE [ok |-> FALSE, val |-> <<>>]

RECURSIVE EvalKeys(_, _, _)
\* color_map[ast.literal_eval(k)] = v for k, v in color_map_str.items(); not ok when
\* literal_eval raises
EvalKeys(d, i, acc) ==
    IF i > Len(d) THEN [ok |-> TRUE, val |-> acc]
    ELSE LET k == LiteralEval(d[i][1])
         IN  IF k.ok THEN EvalKeys(d, i + 1, DictSet(acc, k.val, d[i][2]))
             ELSE [ok |-> FALSE, val |-> <<>>]

\* the decoding of one document as the read loop does it, lines 49-55
Decode(data) ==
    LET v == JsonLoads(data)
    IN  IF v.ok /\ v.kind = "obj" THEN EvalKeys(v.val, 1, <<>>)
        ELSE [ok |-> FALSE, val |-> <<>>]

(***************************************************************************)
(* The engine's private methods, as functions of the fields they use.      *)
(***************************************************************************)
RECURSIVE Flatten_single_location(_, _)
\* the locations of the keys that have exactly one
Flatten_single_location(m, i) ==
    IF i > Len(m) THEN <<>>
    ELSE (IF Len(m[i][2]) = 1 THEN m[i][2] ELSE <<>>) \o Flatten_single_location(m, i + 1)

RECURSIVE Flatten(_, _)
\* the locations in the order the two loops of __init_color_map visit them
Flatten(m, i) == IF i > Len(m) THEN <<>> ELSE m[i][2] \o Flatten(m, i + 1)

RECURSIVE SetAll(_, _, _, _)
\* d[locs[i]] = v for i, i + 1, ...
SetAll(d, locs, i, v) ==
    IF i > Len(locs) THEN d ELSE SetAll(DictSet(d, locs[i], v), locs, i + 1, v)

\* __init_color_map: every location gets count 0 and the base colour
init_color_map(index, count, color) ==
    [count |-> SetAll(count, Flatten(key_to_location_map, 1), 1, 0),
     color |-> SetAll(color, Flatten(key_to_location_map, 1), 1, BaseColor(index))]

\* the divisor kept away from 0 by adding 1.0 to it
Rescale_smoothed(v, lo, hi) == [i \in 1..Len(v) |-> FDiv(v[i] - lo, hi + Scale)]

\* the division by the range np.max(v) - np.min(v)
Rescale_by_range(v, lo, hi) == [i \in 1..Len(v) |-> FDiv(v[i] - lo, hi - lo)]

\* the normalized counts taken from the array in the opposite order
Normalize_misaligned(enhance, count) ==
    LET v == [i \in 1..Len(count) |->
                 IF enhance THEN FSqrt(FromInt(count[i][2])) ELSE FromInt(count[i][2])]
    IN  [i \in 1..Len(v) |-> FDiv(v[(Len(v) + 1) - i] - SeqMin(v), SeqMax(v))]

\* (v - np.min(v)) / np.max(v), element by element
Rescale(v, lo, hi) == [i \in 1..Len(v) |-> FDiv(v[i] - lo, hi)]

\* the normalized counts of __update_color_map, in the order of location_to_count
Normalize(enhance, count) ==
    LET v == [i \in 1..Len(count) |->
                 IF enhance THEN FSqrt(FromInt(count[i][2])) ELSE FromInt(count[i][2])]
    IN  Rescale(v, SeqMin(v), SeqMax(v))

RECURSIVE ColorLoop(_, _, _, _, _)
\* the loop of __update_color_map over location_to_count.items()
ColorLoop(index, count, norm, color, i) ==
    IF i > Len(count) THEN color
    ELSE ColorLoop(index, count, norm,
                   DictSet(color, count[i][1], Palette(index, norm[i])), i + 1)

\* __update_color_map: the normalized counts and the new location_to_color
update_color_map(index, enhance, count, color) ==
    LET norm == Normalize(enhance, count)
    IN  [normalized |-> norm, color |-> ColorLoop(index, count, norm, color, 1)]

\* the rotation going two palettes on
select_next_colormap_skip(index) == (index + 2) % Len(COLOR_MAPS)

\* the rotation stopping at the last palette instead of wrapping
select_next_colormap_clamped(index) ==
    IF index = Len(COLOR_MAPS) - 1 THEN index ELSE index + 1

\* __select_next_colormap: the new color_map_index
select_next_colormap(index) ==
    IF index = Len(COLOR_MAPS) - 1 THEN 0 ELSE index + 1

\* every location of the list counted once, however often the list names it
CountLoop_once(count, locs, i) ==
    [j \in 1..Len(count) |->
        IF \E h \in i..Len(locs) : locs[h] = count[j][1]
        THEN <<count[j][1], count[j][2] + 1>>
        ELSE count[j]]

\* the number of documents that end in w
DocsIn(w) == Cardinality({i \in 1..Len(w) : w[i] = "}"})

\* the Key-Name Counter assigned instead of incremented
CountKey_assign(names, str_key) == DictSet(names, str_key, 1)

\* self.key_name_to_count[str_key] += 1
CountKey(names, str_key) == DictSet(names, str_key, DictGet(names, str_key) + 1)

RECURSIVE CountLoop(_, _, _)
\* for loc in locations: self.location_to_count[loc] += 1
CountLoop(count, locs, i) ==
    IF i > Len(locs) THEN count
    ELSE CountLoop(DictSet(count, locs[i], DictGet(count, locs[i]) + 1), locs, i + 1)

(***************************************************************************)
(* The state of the engine (HeatMapper).                                   *)
(***************************************************************************)
VARIABLES
    change_heatmap_on_refresh,  \* constructor argument
    debug_mode,                 \* constructor argument
    color_map_index,            \* index into COLOR_MAPS of the active palette
    enhance_lowkeys,            \* lowkey enhancement flag
    start_time,                 \* time of construction or of the last reset
    elapsed_time,               \* as computed by the last on_key_release
    location_to_count,          \* Press Counters
    location_to_color,          \* Color Assignment
    key_name_to_count,          \* Key-Name Counters
    clock,                      \* time.time() at the last event
    connected,                  \* self.sock still has its peer
    tx,                         \* the bytes the last call put on the connection
    last_sent,                  \* the last document sendall delivered
    events,                     \* number of release events so far
    resets,                     \* number of refresh resets so far
    released,                   \* for each reported key, its release events so far
    last,                       \* what the last call did
    normalized,                 \* the normalized counts of the last __update_color_map
    send_calls,                 \* calls of __send_colors_to_server made by on_key_release
    messages,                   \* whole documents on_key_release has put on the connection
    wire,                       \* the bytes sent and not yet received
    sent_log,                   \* the Color Assignments sent, in the order of the sends
    server,                     \* "running", "crashed" (uncaught exception) or "done"
    color_map_str,              \* the server's local color_map_str: [bound, value]
    matrix,                     \* device.fx.advanced.matrix: the cells written so far
    server_last,                \* what the last iteration of the read loop did
    commit_idx,                 \* the place in sent_log of the assignment drawn last
    codec_in,                   \* a Color Assignment to encode
    codec_out,                  \* what the server decodes from its encoding
    rotation,                   \* a palette cursor: where it started, where it is, the calls
    discovered,                 \* the devices DeviceManager found
    devices,                    \* self.devices of the server
    device,                     \* self.device of the server
    built                       \* the constructor of the server: "no", "ok" or "error"

engine_vars ==
    <<change_heatmap_on_refresh, debug_mode, color_map_index, enhance_lowkeys, start_time,
      elapsed_time, location_to_count, location_to_color, key_name_to_count, clock,
      connected, tx, last_sent, events, resets, released, last, normalized, send_calls,
      messages>>

\* the palette the engine is started with: the last of the list, so that rotation wraps
InitialColorMap == Len(COLOR_MAPS) - 1

\* seconds between two release events
Delays == {1, RefreshInterval + 1}

\* whether sendall can get the whole document out: not without a connection
SendOutcomes == IF connected THEN BOOLEAN ELSE {FALSE}

\* the refresh reset taken at every release after the first instant
RefreshDue_any(elapsed) == elapsed > 0

\* the refresh reset taken a second early
RefreshDue_inclusive(elapsed) == elapsed >= RefreshInterval

\* the condition of the refresh reset, line 105
RefreshDue(elapsed) == elapsed > RefreshInterval

\* the refresh check never resetting
refresh_never(reset, index, count, color) == [count |-> count, color |-> color]

\* lines 105-109 without the rotation of the palette: the counters and colours after
\* the refresh check
refresh(reset, index, count, color) ==
    IF reset THEN init_color_map(index, count, color)
    ELSE [count |-> count, color |-> color]

\* no document is built once the connection is gone
send_colors_to_server_gives_up(color, up, whole) ==
    IF ~up THEN [doc |-> <<>>, out |-> <<>>]
    ELSE [doc |-> Encode(color),
          out |-> IF whole THEN Encode(color)
                  ELSE SubSeq(Encode(color), 1, Len(Encode(color)) \div 2)]

\* the document handed to sendall a second time
send_colors_to_server_twice(color, up, whole) ==
    [doc |-> Encode(color),
     out |-> IF ~up THEN <<>>
             ELSE IF whole THEN Encode(color) \o Encode(color)
             ELSE SubSeq(Encode(color), 1, Len(Encode(color)) \div 2)]

\* __send_colors_to_server: what sendall gets out: all of the document, or the first
\* part of it when the connection breaks under way, or nothing without a peer; the
\* socket.error of the last two is caught and logged. doc is the document handed to
\* sendall, out the bytes that get out
send_colors_to_server(color, up, whole) ==
    LET serialized_dict == Encode(color)
    IN  [doc |-> serialized_dict,
         out |-> IF ~up THEN <<>>
                 ELSE IF whole THEN serialized_dict
                 ELSE SubSeq(serialized_dict, 1, Len(serialized_dict) \div 2)]

\* the constructor, lines 21-54: connect has succeeded
EngineInit ==
    /\ change_heatmap_on_refresh \in BOOLEAN
    /\ debug_mode \in BOOLEAN
    /\ color_map_index = InitialColorMap
    /\ enhance_lowkeys \in BOOLEAN
    /\ start_time = 0
    /\ elapsed_time = 0
    /\ clock = 0
    /\ location_to_count = init_color_map(color_map_index, <<>>, <<>>).count
    /\ location_to_color = init_color_map(color_map_index, <<>>, <<>>).color
    /\ key_name_to_count =
           [i \in 1..Len(key_to_location_map) |-> <<key_to_location_map[i][1], 0>>]
    /\ connected = TRUE
    /\ tx = send_colors_to_server(location_to_color, connected, TRUE).out
    /\ send_calls = 0
    /\ messages = 0
    /\ last_sent = tx
    /\ events = 0
    /\ resets = 0
    /\ released = [k \in Keys |-> 0]
    /\ last = [op |-> "init", key |-> <<>>, mapped |-> FALSE, reset |-> FALSE,
               send |-> "ok", doc |-> tx, reset_count |-> <<>>, reset_color |-> <<>>]
    /\ normalized = <<>>

\* on_key_release(key) at time clock + dt, lines 103-142; whole: sendall, if it is
\* reached on a live connection, gets the whole document out
on_key_release(key, dt, whole) ==
    LET now       == clock + dt
        elapsed   == now - start_time
        reset     == RefreshDue(elapsed)
        index1    == IF reset /\ change_heatmap_on_refresh
                     THEN select_next_colormap(color_map_index)
                     ELSE color_map_index
        str_key   == NormalizeKey(key)
        mapped    == DictHas(key_to_location_map, str_key)
        locations == DictGet(key_to_location_map, str_key)
        index2    == IF debug_mode /\ str_key = KeyF2
                     THEN select_next_colormap(index1)
                     ELSE index1
        enhance2  == IF debug_mode /\ str_key = KeyF3
                     THEN ~enhance_lowkeys
                     ELSE enhance_lowkeys
    IN  /\ events < MaxEvents
        /\ clock' = now
        /\ elapsed_time' = elapsed
        /\ start_time' = IF reset THEN now ELSE start_time
        /\ events' = events + 1
        /\ resets' = IF reset THEN resets + 1 ELSE resets
        /\ released' = [released EXCEPT ![key] = @ + 1]
        /\ UNCHANGED <<change_heatmap_on_refresh, debug_mode>>
        /\ \E cleared \in {refresh(reset, index1, location_to_count, location_to_color)} :
           IF ~mapped
           THEN \* locations is None: return
                /\ color_map_index' = index1
                /\ location_to_count' = cleared.count
                /\ location_to_color' = cleared.color
                /\ tx' = <<>>
                /\ connected' = connected
                /\ last' = [op |-> "release", key |-> key, mapped |-> FALSE, reset |-> reset,
                            send |-> "none", doc |-> <<>>,
                            reset_count |-> IF reset THEN cleared.count ELSE <<>>,
                            reset_color |-> IF reset THEN cleared.color ELSE <<>>]
                /\ UNCHANGED <<enhance_lowkeys, key_name_to_count, last_sent, normalized,
                               send_calls, messages>>
           ELSE \E count2 \in {CountLoop(cleared.count, locations, 1)} :
                \E updated \in {update_color_map(index2, enhance2, count2, cleared.color)} :
                \E sent \in {send_colors_to_server(updated.color, connected, whole)} :
                /\ key_name_to_count' = CountKey(key_name_to_count, str_key)
                /\ location_to_count' = count2
                /\ color_map_index' = index2
                /\ enhance_lowkeys' = enhance2
                /\ normalized' = updated.normalized
                /\ location_to_color' = updated.color
                /\ tx' = sent.out
                /\ send_calls' = send_calls + 1
                /\ messages' = messages + DocsIn(sent.out)
                /\ connected' = (connected /\ whole)
                /\ last_sent' = IF connected /\ whole THEN tx' ELSE last_sent
                /\ last' = [op |-> "release", key |-> key, mapped |-> TRUE, reset |-> reset,
                            send |-> IF connected /\ whole THEN "ok" ELSE "failed",
                            doc |-> sent.doc,
                            reset_count |-> IF reset THEN cleared.count ELSE <<>>,
                            reset_color |-> IF reset THEN cleared.color ELSE <<>>]

\* the listener calls on_key_release for every key released
KeyRelease ==
    \E key \in Keys, dt \in Delays, whole \in SendOutcomes : on_key_release(key, dt, whole)

\* the peer of self.sock goes away: from now on sendall raises socket.error
ConnectionLost ==
    /\ connected
    /\ connected' = FALSE
    /\ UNCHANGED <<change_heatmap_on_refresh, debug_mode, color_map_index, enhance_lowkeys,
                   start_time, elapsed_time, location_to_count, location_to_color,
                   key_name_to_count, clock, tx, last_sent, events, resets, released, last,
                   normalized, send_calls, messages>>

link_vars == <<wire, sent_log, server, color_map_str, matrix, server_last, commit_idx>>

codec_vars == <<codec_in, codec_out>>

rotate_vars == <<rotation>>

device_vars == <<discovered, devices, device, built>>

vars == <<engine_vars, link_vars, codec_vars, rotate_vars, device_vars>>

(***************************************************************************)
(* The server's read loop (HeatMapServer.start_listening).                 *)
(***************************************************************************)
\* the size asked of conn.recv
RecvSize == 4096

\* the numbers of bytes one recv may return
RecvSizes == 1..(IF Len(wire) < RecvSize THEN Len(wire) ELSE RecvSize)

\* a dict as the set of its items
Items(d) == {d[i] : i \in 1..Len(d)}

\* the loop over the items left after its first cell
WriteCells_first_cell(m, d, i) ==
    IF i > Len(d) THEN m ELSE DictSet(m, <<d[i][1][1], d[i][1][2]>>, d[i][2])

RECURSIVE WriteCells(_, _, _)
\* self.device.fx.advanced.matrix[row, col] = tuple(v) for every k, v of color_map
WriteCells(m, d, i) ==
    IF i > Len(d) THEN m
    ELSE WriteCells(DictSet(m, <<d[i][1][1], d[i][1][2]>>, d[i][2]), d, i + 1)

\* a draw after the write of every cell
DeviceCalls_draw_each(color_map) ==
    [i \in 1..(2 * Len(color_map)) |->
        IF i % 2 = 1
        THEN <<"set", color_map[(i + 1) \div 2][1][1], color_map[(i + 1) \div 2][1][2],
               color_map[(i + 1) \div 2][2]>>
        ELSE <<"draw">>]

\* the calls on the device of lines 56-60, in their order: one write of a cell for every
\* item of color_map, then __update_device
DeviceCalls(color_map) ==
    [i \in 1..Len(color_map) |->
        <<"set", color_map[i][1][1], color_map[i][1][2], color_map[i][2]>>]
    \o << <<"draw">> >>

\* the place in sent_log, not before from, of the assignment m; 0 when there is none
PlaceOf(m, from) ==
    IF \E j \in from..Len(sent_log) : j >= 1 /\ Items(sent_log[j]) = Items(m)
    THEN CHOOSE j \in from..Len(sent_log) :
             /\ j >= 1
             /\ Items(sent_log[j]) = Items(m)
             /\ \A h \in from..(j - 1) : h < 1 \/ Items(sent_log[h]) # Items(m)
    ELSE 0

\* an uncaught exception ends the server process before a cell is written
ServerCrash(result) ==
    /\ server' = "crashed"
    /\ wire' = <<>>
    /\ server_last' = [result |-> result, writes |-> 0, draws |-> 0, calls |-> <<>>]
    /\ UNCHANGED <<matrix, commit_idx>>

\* lines 53-60 with color_map_str bound to the dict d
ServerApply(result, d, rest) ==
    \E keyed \in {EvalKeys(d, 1, <<>>)} :
        IF ~keyed.ok
        THEN ServerCrash(result)
        ELSE /\ matrix' = WriteCells(matrix, keyed.val, 1)
             /\ commit_idx' = PlaceOf(matrix', commit_idx)
             /\ server_last' = [result |-> result, writes |-> Len(keyed.val), draws |-> 1,
                                 calls |-> DeviceCalls(keyed.val)]
             /\ wire' = rest
             /\ UNCHANGED server

\* one iteration of the loop, lines 43-60, conn.recv returning n bytes
ServerRecv(n) ==
    /\ server = "running"
    /\ n \in RecvSizes
    /\ UNCHANGED <<engine_vars, codec_vars, rotate_vars, device_vars, sent_log>>
    /\ \E v \in {JsonLoads(SubSeq(wire, 1, n))} :
          IF ~v.ok
          THEN \* ValueError: logged, and the loop body goes on with the old color_map_str
               /\ UNCHANGED color_map_str
               /\ IF ~color_map_str.bound
                  THEN ServerCrash("error")
                  ELSE ServerApply("error", color_map_str.val, SubSeq(wire, n + 1, Len(wire)))
          ELSE IF v.kind # "obj"
          THEN \* a value without items()
               /\ color_map_str' = [bound |-> TRUE, val |-> <<>>]
               /\ ServerCrash("other")
          ELSE /\ color_map_str' = [bound |-> TRUE, val |-> v.val]
               /\ ServerApply("ok", v.val, SubSeq(wire, n + 1, Len(wire)))

\* conn.recv returns b"" once the connection is gone and nothing is left to read: break
ServerEof ==
    /\ server = "running"
    /\ wire = <<>>
    /\ ~connected
    /\ server' = "done"
    /\ UNCHANGED <<engine_vars, codec_vars, rotate_vars, device_vars, wire, sent_log,
                   color_map_str, matrix, server_last, commit_idx>>

\* the server before its first recv
ServerInit ==
    /\ server = "running"
    /\ color_map_str = [bound |-> FALSE, val |-> <<>>]
    /\ matrix = <<>>
    /\ server_last = [result |-> "none", writes |-> 0, draws |-> 0, calls |-> <<>>]
    /\ commit_idx = 0

\* no device stands for self.device before the constructor has bound it
NoDevice == [serial |-> 0, advanced |-> FALSE]

\* the palette cursor and the server's constructor, where they are not exercised
RotateIdle == rotation = [start |-> 0, index |-> 0, calls |-> 0]

DeviceIdle ==
    /\ discovered = <<>>
    /\ devices = <<>>
    /\ device = NoDevice
    /\ built = "no"

(***************************************************************************)
(* Spec: the engine alone, the bytes it sends going nowhere.               *)
(***************************************************************************)
Init ==
    /\ EngineInit
    /\ ServerInit
    /\ wire = <<>>
    /\ sent_log = <<>>
    /\ codec_in = <<>>
    /\ codec_out = <<>>
    /\ RotateIdle
    /\ DeviceIdle

EngineRelease == KeyRelease /\ UNCHANGED <<link_vars, codec_vars, rotate_vars, device_vars>>

EngineConnectionLost == ConnectionLost /\ UNCHANGED <<link_vars, codec_vars, rotate_vars, device_vars>>

Next == EngineRelease \/ EngineConnectionLost

Spec == Init /\ [][Next]_vars

(***************************************************************************)
(* LinkSpec: the engine, the connection and the server.                    *)
(***************************************************************************)
\* documents that may be in flight when the engine sends another
MaxInFlight == 2
\* release events in one run of LinkSpec
MaxLinkEvents == 2

\* the keys released in LinkSpec
LinkKeys == { <<"a">>, <<"b">>, <<"x">> }

LinkInit ==
    /\ EngineInit
    /\ change_heatmap_on_refresh
    /\ ~debug_mode
    /\ ~enhance_lowkeys
    /\ ServerInit
    /\ wire = tx
    /\ sent_log = <<location_to_color>>
    /\ codec_in = <<>>
    /\ codec_out = <<>>
    /\ RotateIdle
    /\ DeviceIdle

LinkRelease ==
    /\ DocsIn(wire) < MaxInFlight
    /\ events < MaxLinkEvents
    /\ \E key \in LinkKeys, dt \in Delays, whole \in SendOutcomes :
           on_key_release(key, dt, whole)
    /\ wire' = IF server = "running" THEN wire \o tx' ELSE wire
    /\ sent_log' = IF last'.send = "ok" THEN Append(sent_log, location_to_color')
                   ELSE sent_log
    /\ UNCHANGED <<server, color_map_str, matrix, server_last, commit_idx, codec_vars,
                   rotate_vars, device_vars>>

LinkConnectionLost == ConnectionLost /\ UNCHANGED <<link_vars, codec_vars, rotate_vars, device_vars>>

LinkRecv == \E n \in RecvSizes : ServerRecv(n)

LinkNext == LinkRelease \/ LinkConnectionLost \/ LinkRecv \/ ServerEof

LinkSpec == LinkInit /\ [][LinkNext]_vars

(***************************************************************************)
(* CodecSpec: the wire format alone, on Color Assignments drawn from       *)
(* bounded sets.                                                           *)
(***************************************************************************)
\* the largest coordinate of a location in CodecSpec
MaxCoord == 10

CodecLocations == << <<0, 0>>, <<9, MaxCoord>>, <<MaxCoord, 21>> >>

CodecColors == { <<0, 0, 0>>, <<255, 255, 255>>, <<10, 0, 127>>, <<7, 99, 100>> }

RECURSIVE Assignments(_)
\* the Color Assignments over the locations from position i, in that order
Assignments(i) ==
    IF i > Len(CodecLocations) THEN { <<>> }
    ELSE Assignments(i + 1) \cup
         { << <<CodecLocations[i], c>> >> \o rest :
               c \in CodecColors, rest \in Assignments(i + 1) }

CodecInit ==
    /\ EngineInit
    /\ change_heatmap_on_refresh
    /\ ~debug_mode
    /\ ~enhance_lowkeys
    /\ ServerInit
    /\ wire = <<>>
    /\ sent_log = <<>>
    /\ codec_in \in Assignments(1)
    /\ codec_out = [done |-> FALSE, ok |-> FALSE, val |-> <<>>]
    /\ RotateIdle
    /\ DeviceIdle

\* the client encodes codec_in and the server decodes that one document
CodecRoundTrip ==
    /\ ~codec_out.done
    /\ \E d \in {Decode(Encode(codec_in))} :
           codec_out' = [done |-> TRUE, ok |-> d.ok, val |-> d.val]
    /\ UNCHANGED <<engine_vars, link_vars, codec_in, rotate_vars, device_vars>>

CodecNext == CodecRoundTrip

CodecSpec == CodecInit /\ [][CodecNext]_vars

(***************************************************************************)
(* RotateSpec: __select_next_colormap alone, called again and again from   *)
(* every cursor position.                                                  *)
(***************************************************************************)
\* calls of __select_next_colormap in one run
MaxRotations == 20

RotateInit ==
    /\ EngineInit
    /\ change_heatmap_on_refresh
    /\ ~debug_mode
    /\ ~enhance_lowkeys
    /\ ServerInit
    /\ wire = <<>>
    /\ sent_log = <<>>
    /\ codec_in = <<>>
    /\ codec_out = <<>>
    /\ DeviceIdle
    /\ \E index \in 0..(Len(COLOR_MAPS) - 1) :
           rotation = [start |-> index, index |-> index, calls |-> 0]

\* one call of __select_next_colormap
Rotate ==
    /\ rotation.calls < MaxRotations
    /\ rotation' = [rotation EXCEPT !.index = select_next_colormap(rotation.index),
                                    !.calls = @ + 1]
    /\ UNCHANGED <<engine_vars, link_vars, codec_vars, device_vars>>

RotateNext == Rotate

RotateSpec == RotateInit /\ [][RotateNext]_vars

(***************************************************************************)
(* DeviceSpec: the constructor of the server (HeatMapServer.__init__) on   *)
(* every list of devices up to a length.                                   *)
(***************************************************************************)
\* the devices DeviceManager can find
MaxDevices == 5

\* the lists of n devices, with or without device.fx.advanced
DeviceLists(n) ==
    { [i \in 1..n |-> [serial |-> i, advanced |-> adv[i]]] : adv \in [1..n -> BOOLEAN] }

\* list.remove(x): the list without its first element equal to x
Remove(list, x) ==
    LET i == CHOOSE j \in 1..Len(list) :
                 list[j] = x /\ \A h \in 1..(j - 1) : list[h] # x
    IN  SubSeq(list, 1, i - 1) \o SubSeq(list, i + 1, Len(list))

RECURSIVE FilterLoop(_, _, _)
\* the loop of lines 22-25 over the list it removes from: the iterator is at position
\* i of list, cur is the loop variable device
FilterLoop(list, i, cur) ==
    IF i > Len(list) THEN [devices |-> list, device |-> cur]
    ELSE IF ~list[i].advanced
         THEN FilterLoop(Remove(list, list[i]), i + 1, list[i])
         ELSE FilterLoop(list, i + 1, list[i])

DeviceInit ==
    /\ EngineInit
    /\ change_heatmap_on_refresh
    /\ ~debug_mode
    /\ ~enhance_lowkeys
    /\ ServerInit
    /\ wire = <<>>
    /\ sent_log = <<>>
    /\ codec_in = <<>>
    /\ codec_out = <<>>
    /\ RotateIdle
    /\ discovered \in UNION {DeviceLists(n) : n \in 0..MaxDevices}
    /\ devices = <<>>
    /\ device = NoDevice
    /\ built = "no"

\* HeatMapServer.__init__, lines 14-30; without a device the loop variable is unbound
\* at line 27 and the constructor raises
HeatMapServerInit ==
    /\ built = "no"
    /\ \E filtered \in {FilterLoop(discovered, 1, NoDevice)} :
           /\ devices' = filtered.devices
           /\ device' = filtered.device
           /\ built' = IF discovered = <<>> THEN "error" ELSE "ok"
    /\ UNCHANGED <<engine_vars, link_vars, codec_vars, rotate_vars, discovered>>

DeviceNext == HeatMapServerInit

DeviceSpec == DeviceInit /\ [][DeviceNext]_vars

(***************************************************************************)
(* Definitions the properties are stated with.                             *)
(***************************************************************************)
\* the locations of the Layout Map
AllLocations ==
    UNION { {key_to_location_map[i][2][j] : j \in 1..Len(key_to_location_map[i][2])} :
              i \in 1..Len(key_to_location_map) }

\* the reported key is looked up under a key of the Layout Map
Mapped(key) == \E i \in 1..Len(key_to_location_map) :
                   key_to_location_map[i][1] = NormalizeKey(key)

\* the location list the reported key resolves to
LocationsOf(key) ==
    IF Mapped(key)
    THEN key_to_location_map[CHOOSE i \in 1..Len(key_to_location_map) :
                                 key_to_location_map[i][1] = NormalizeKey(key)][2]
    ELSE <<>>

\* how often location loc occurs in the location list of key
Occurrences(loc, key) ==
    Cardinality({j \in 1..Len(LocationsOf(key)) : LocationsOf(key)[j] = loc})

RECURSIVE PairsOver(_, _)
\* the (event, occurrence of loc) pairs among the release events of the keys in S
PairsOver(S, loc) ==
    IF S = {} THEN 0
    ELSE LET k == CHOOSE x \in S : TRUE
         IN  (released[k] * Occurrences(loc, k)) + PairsOver(S \ {k}, loc)

RECURSIVE SumValues(_, _)
\* the sum of the values of a dict from position i
SumValues(d, i) == IF i > Len(d) THEN 0 ELSE d[i][2] + SumValues(d, i + 1)

RECURSIVE ResolvedPairs(_)
\* the (event, resolved location) pairs among the release events of the keys in S
ResolvedPairs(S) ==
    IF S = {} THEN 0
    ELSE LET k == CHOOSE x \in S : TRUE
         IN  (released[k] * Len(LocationsOf(k))) + ResolvedPairs(S \ {k})

\* every value of the dict d is v
AllValues(d, v) == \A i \in 1..Len(d) : d[i][2] = v

\* this step is a call of on_key_release
ReleaseStep == events' = events + 1

(***************************************************************************)
(* The properties.                                                         *)
(***************************************************************************)
\* C1 as stated: a release of a key that is not in the Layout Map leaves Press
\* Counters, Key-Name Counters and the Color Assignment as they were, whenever it
\* arrives.
C1_UnmappedNeverChangesState ==
    [][(ReleaseStep /\ ~Mapped(last'.key))
         => UNCHANGED <<location_to_count, key_name_to_count, location_to_color>>]_vars

\* C1 amended: a release of a key whose looked-up name is not in the Layout Map never
\* changes the Key-Name Counters, and when it arrives with an elapsed time that does
\* not exceed the refresh interval it leaves Press Counters, Color Assignment, palette
\* and refresh clock as they were.
C1_UnmappedIgnoredWithinInterval ==
    [][(ReleaseStep /\ ~Mapped(last'.key))
         => /\ key_name_to_count' = key_name_to_count
            /\ enhance_lowkeys' = enhance_lowkeys
            /\ (elapsed_time' <= RefreshInterval
                  => UNCHANGED <<location_to_count, location_to_color, color_map_index,
                                 start_time>>)]_vars

C1_Witness ==
    /\ last.op = "release"
    /\ ~Mapped(last.key)
    /\ elapsed_time <= RefreshInterval
    /\ \E i \in 1..Len(location_to_count) : location_to_count[i][2] > 0

\* C2: when on_key_release runs with an elapsed time above the refresh interval, its
\* reset step leaves every Press Counter at 0 and every colour at palette(0) of the
\* active palette: the next of the registry when change-palette-on-refresh is on, the
\* same as before when it is off.
C2_ResetClearsCountersAndColors ==
    [][(ReleaseStep /\ elapsed_time' > RefreshInterval)
         => LET active == IF change_heatmap_on_refresh
                          THEN (color_map_index + 1) % Len(COLOR_MAPS)
                          ELSE color_map_index
            IN  /\ DictKeys(last'.reset_count) = AllLocations
                /\ AllValues(last'.reset_count, 0)
                /\ DictKeys(last'.reset_color) = AllLocations
                /\ AllValues(last'.reset_color, Palette(active, Num(0)))
                /\ (~Mapped(last'.key)
                      => /\ location_to_count' = last'.reset_count
                         /\ location_to_color' = last'.reset_color
                         /\ color_map_index' = active)]_vars

C2_Witness ==
    /\ last.op = "release"
    /\ last.reset
    /\ ~last.mapped
    /\ change_heatmap_on_refresh
    /\ color_map_index = 0
    /\ \E i \in 1..Len(key_name_to_count) : key_name_to_count[i][2] > 0

\* C3: in every reachable state the keys of Press Counters and the keys of the Color
\* Assignment are exactly the locations of the Layout Map, each once.
C3_KeySetsAreTheLocations ==
    /\ DictKeys(location_to_count) = AllLocations
    /\ DictKeys(location_to_color) = AllLocations
    /\ Len(location_to_count) = Cardinality(AllLocations)
    /\ Len(location_to_color) = Cardinality(AllLocations)

C3_Witness ==
    /\ debug_mode
    /\ resets >= 1
    /\ last.op = "release"
    /\ last.key = KeyF2
    /\ released[<<"x">>] >= 1

\* C4: as long as no refresh reset has occurred, the Press Counter of each location is
\* the number of (event, occurrence of the location in the list of the event's key)
\* pairs, and the counters sum to the number of (event, resolved location) pairs.
C4_CountersCountPairs ==
    resets = 0
      => /\ \A loc \in AllLocations :
                DictGet(location_to_count, loc) = PairsOver(Keys, loc)
         /\ SumValues(location_to_count, 1) = ResolvedPairs(Keys)

C4_Witness ==
    /\ resets = 0
    /\ released[KeyF3] >= 1
    /\ released[<<"b">>] >= 1
    /\ released[<<"A">>] >= 1

\* C5 as stated: when __update_color_map runs while every Press Counter is 0, every
\* normalized value is the number 0 and every colour is palette(0).
C5_AllZeroNormalizesToZero ==
    (last.op = "release" /\ last.mapped /\ AllValues(location_to_count, 0))
      => /\ \A i \in 1..Len(normalized) : normalized[i] = Num(0)
         /\ AllValues(location_to_color, Palette(color_map_index, Num(0)))

\* C7 as stated: as long as sends succeed, after every on_key_release the last message
\* sent is the encoding of the current Color Assignment.
C7_LastSentIsCurrentAssignment ==
    (last.op = "release" /\ connected) => last_sent = Encode(location_to_color)

\* C8: after an on_key_release of a mapped key with an elapsed time above the refresh
\* interval, every Press Counter is the number of times its location occurs in the
\* location list of that key, and the refresh clock has been restarted.
C8_ResetPrecedesCounting ==
    (last.op = "release" /\ Mapped(last.key) /\ elapsed_time > RefreshInterval)
      => /\ \A loc \in AllLocations :
                DictGet(location_to_count, loc) = Occurrences(loc, last.key)
         /\ start_time = clock

C8_Witness ==
    /\ last.op = "release"
    /\ last.key = <<"a">>
    /\ elapsed_time > RefreshInterval
    /\ DictGet(key_name_to_count, <<"b">>) >= 1

\* C9: encoding a Color Assignment and decoding that one document gives back the same
\* locations with the same integer channel values.
C9_RoundTrip ==
    codec_out.done
      => /\ codec_out.ok
         /\ Len(codec_out.val) = Len(codec_in)
         /\ Items(codec_out.val) = Items(codec_in)

C9_Witness ==
    /\ codec_out.done
    /\ Len(codec_in) = Len(CodecLocations)
    /\ \E i \in 1..Len(codec_in) : codec_in[i][2] = <<10, 0, 127>>

\* C6 as stated: a chunk that cannot be decoded makes the server write no cell and
\* draw nothing for it, and does not end the server.
C6_UndecodableChunkIsSkipped ==
    server_last.result = "error"
      => /\ server_last.writes = 0
         /\ server_last.draws = 0
         /\ server # "crashed"

\* C10: whatever the read loop has written to the matrix and drawn is one whole Color
\* Assignment the engine sent, and it was sent no earlier than the one drawn before
\* it.
C10_DrawnAssignmentsAreSentSnapshotsInOrder ==
    matrix # <<>>
      => /\ commit_idx >= 1
         /\ commit_idx <= Len(sent_log)
         /\ Items(matrix) = Items(sent_log[commit_idx])

C10_Witness ==
    /\ commit_idx >= 2
    /\ Len(sent_log) >= 3
    /\ server_last.result = "error"
    /\ server_last.draws = 1

RECURSIVE ReleasesOf(_, _)
\* the release events of keys in S that are looked up under the name str_key
ReleasesOf(S, str_key) ==
    IF S = {} THEN 0
    ELSE LET k == CHOOSE x \in S : TRUE
         IN  (IF NormalizeKey(k) = str_key THEN released[k] ELSE 0)
             + ReleasesOf(S \ {k}, str_key)

RECURSIVE MappedEvents(_)
\* the release events of the keys in S whose looked-up name is in the Layout Map
MappedEvents(S) ==
    IF S = {} THEN 0
    ELSE LET k == CHOOSE x \in S : TRUE
         IN  (IF Mapped(k) THEN released[k] ELSE 0) + MappedEvents(S \ {k})

\* C11: after an on_key_release of a mapped key whose send failed, the call has handed
\* the encoding of the current Color Assignment to sendall, the Color Assignment is the
\* one computed from the Press Counters of that event, and Press Counters and Key-Name
\* Counters hold what the events so far amount to; this holds as well for every later
\* release on the dead connection.
C11_SendFailureKeepsState ==
    (last.op = "release" /\ last.mapped /\ last.send = "failed")
      => /\ last.doc = Encode(location_to_color)
         /\ location_to_color =
                update_color_map(color_map_index, enhance_lowkeys, location_to_count,
                                 location_to_color).color
         /\ \A i \in 1..Len(key_name_to_count) :
                key_name_to_count[i][2] = ReleasesOf(Keys, key_name_to_count[i][1])
         /\ (resets = 0
               => \A loc \in AllLocations :
                      DictGet(location_to_count, loc) = PairsOver(Keys, loc))

C11_Witness ==
    /\ last.op = "release"
    /\ last.mapped
    /\ last.send = "failed"
    /\ ~connected
    /\ tx = <<>>
    /\ send_calls >= 2
    /\ messages = 0

\* C12: on_key_release has called __send_colors_to_server once for every release event
\* whose looked-up name is in the Layout Map and never for another; while the connection
\* is up each of these calls has put exactly one whole document on it, the encoding of
\* the Color Assignment after the event, and a release of an unmapped key has put
\* nothing on it.
C12_OneMessagePerMappedEvent ==
    /\ send_calls = MappedEvents(Keys)
    /\ messages <= send_calls
    /\ (connected => messages = MappedEvents(Keys))
    /\ ((connected /\ last.op = "release")
          => tx = IF Mapped(last.key) THEN Encode(location_to_color) ELSE <<>>)

C12_Witness ==
    /\ connected
    /\ last.op = "release"
    /\ released[<<"x">>] >= 1
    /\ released[<<"A">>] >= 1
    /\ messages = 2
    /\ events = 3

\* the largest Press Counter
MaxCount == CHOOSE c \in {location_to_count[i][2] : i \in 1..Len(location_to_count)} :
                \A i \in 1..Len(location_to_count) : location_to_count[i][2] <= c

\* C13: after a release of a mapped key that leaves a location with count 0 and a
\* location with a positive count, every location with the largest count has normalized
\* value 1 and colour palette(1), and every location with count 0 has normalized value 0
\* and colour palette(0), whatever the enhancement flag.
C13_ExtremesOfNormalization ==
    (/\ last.op = "release"
     /\ last.mapped
     /\ MaxCount > 0
     /\ \E i \in 1..Len(location_to_count) : location_to_count[i][2] = 0)
      => \A i \in 1..Len(location_to_count) :
             /\ (location_to_count[i][2] = MaxCount
                   => /\ normalized[i] = Num(Scale)
                      /\ DictGet(location_to_color, location_to_count[i][1])
                             = Palette(color_map_index, Num(Scale)))
             /\ (location_to_count[i][2] = 0
                   => /\ normalized[i] = Num(0)
                      /\ DictGet(location_to_color, location_to_count[i][1])
                             = Palette(color_map_index, Num(0)))

C13_Witness ==
    /\ last.op = "release"
    /\ last.mapped
    /\ enhance_lowkeys
    /\ MaxCount = 3
    /\ Cardinality({i \in 1..Len(location_to_count) : location_to_count[i][2] = 0}) = 1

\* C14: after a recomputation of the colours with a positive largest count, a location
\* whose Press Counter is greater than that of another has a normalized value that is a
\* number and is not less than the other's.
C14_NormalizationIsMonotonic ==
    (last.op = "release" /\ last.mapped /\ MaxCount > 0)
      => \A i, j \in 1..Len(location_to_count) :
             location_to_count[i][2] > location_to_count[j][2]
               => /\ normalized[i].kind = "num"
                  /\ normalized[j].kind = "num"
                  /\ normalized[i].val >= normalized[j].val

C14_Witness ==
    /\ last.op = "release"
    /\ last.mapped
    /\ enhance_lowkeys
    /\ DictGet(location_to_count, <<0, 0>>) = 2
    /\ DictGet(location_to_count, <<0, 1>>) = 0
    /\ DictGet(location_to_count, <<1, 0>>) = 1

\* C17: when the colours are recomputed while all Press Counters hold the same positive
\* value, every normalized value is 0 and every colour is palette(0), the assignment of
\* a fresh engine with that palette.
C17_EqualCountsNormalizeToZero ==
    (/\ last.op = "release"
     /\ last.mapped
     /\ MaxCount > 0
     /\ AllValues(location_to_count, MaxCount))
      => /\ \A i \in 1..Len(normalized) : normalized[i] = Num(0)
         /\ AllValues(location_to_color, Palette(color_map_index, Num(0)))
         /\ location_to_color = init_color_map(color_map_index, <<>>, <<>>).color

C17_Witness ==
    /\ last.op = "release"
    /\ last.mapped
    /\ AllValues(location_to_count, 1)
    /\ released[<<"b">>] = 1
    /\ released[<<"A">>] = 1

\* this step makes some Press Counter smaller
CounterDecreases ==
    \E i \in 1..Len(location_to_count) :
        location_to_count'[i][2] < location_to_count[i][2]

\* C18 as stated: counters decrease and resets are counted only in a release that
\* arrives with an elapsed time above the refresh interval, and a release that arrives
\* with an elapsed time within the interval never rotates the palette.
C18_ResetAndRotationOnlyWhenDue ==
    [][/\ ((CounterDecreases \/ resets' # resets)
             => (ReleaseStep /\ elapsed_time' > RefreshInterval))
       /\ ((ReleaseStep /\ elapsed_time' <= RefreshInterval)
             => color_map_index' = color_map_index)]_vars

\* C18 amended: counters decrease and resets are counted only in a release that arrives
\* with an elapsed time above the refresh interval; any other step leaves the palette as
\* it is, except the release of Key.f2 in debug mode, which moves it to the next of the
\* registry.
C18_ResetOnlyWhenDue ==
    [][/\ ((CounterDecreases \/ resets' # resets)
             => (ReleaseStep /\ elapsed_time' > RefreshInterval))
       /\ (~ReleaseStep => UNCHANGED <<location_to_count, location_to_color,
                                      color_map_index, start_time>>)
       /\ ((ReleaseStep /\ elapsed_time' <= RefreshInterval)
             => /\ start_time' = start_time
                /\ (color_map_index' # color_map_index
                      => /\ debug_mode
                         /\ NormalizeKey(last'.key) = KeyF2
                         /\ color_map_index' = (color_map_index + 1) % Len(COLOR_MAPS)))]_vars

C18_Witness ==
    /\ last.op = "release"
    /\ elapsed_time = RefreshInterval
    /\ resets = 0
    /\ events = 3
    /\ DictGet(location_to_count, <<0, 0>>) = 3

\* C19: in every reachable state the Key-Name Counter of each key of the Layout Map is
\* the number of release events looked up under that key since startup, refresh resets
\* or not.
C19_KeyNameCountersSurviveResets ==
    /\ DictKeys(key_name_to_count) = DictKeys(key_to_location_map)
    /\ \A i \in 1..Len(key_name_to_count) :
           key_name_to_count[i][2] = ReleasesOf(Keys, key_name_to_count[i][1])

C19_Witness ==
    /\ resets >= 1
    /\ released[<<"a">>] = 1
    /\ released[<<"A">>] = 1
    /\ DictGet(key_name_to_count, <<"a">>) = 2
    /\ DictGet(location_to_count, <<0, 0>>) = 1

\* C15: when the read loop has decoded a chunk, the calls it made on the device for it
\* are one write for every decoded entry, each entry once, followed by one draw, the
\* draw being the last call and the only one; the matrix then holds the entries.
C15_OneWritePerEntryThenOneDraw ==
    server_last.result = "ok"
      => LET calls   == server_last.calls
             entries == EvalKeys(color_map_str.val, 1, <<>>).val
         IN  /\ Len(calls) = Len(entries) + 1
             /\ calls[Len(calls)] = <<"draw">>
             /\ \A i \in 1..(Len(calls) - 1) : calls[i][1] = "set"
             /\ \A j \in 1..Len(entries) :
                    Cardinality({i \in 1..(Len(calls) - 1) :
                                    calls[i] = <<"set", entries[j][1][1], entries[j][1][2],
                                                 entries[j][2]>>}) = 1
             /\ Items(matrix) = Items(entries)

C15_Witness ==
    /\ server_last.result = "ok"
    /\ Len(server_last.calls) = Cardinality(AllLocations) + 1
    /\ commit_idx >= 2

\* C16: the cursor is always a position of the registry; after as many calls of
\* __select_next_colormap as the registry has palettes the cursor and the palette name
\* are the ones it started from, and after fewer calls they are not.
C16_RotationIsCircular ==
    LET N == Len(COLOR_MAPS)
    IN  /\ rotation.index \in 0..(N - 1)
        /\ (rotation.calls = N
              => /\ rotation.index = rotation.start
                 /\ ColorMapName(rotation.index) = ColorMapName(rotation.start))
        /\ ((rotation.calls > 0 /\ rotation.calls < N)
              => /\ rotation.index # rotation.start
                 /\ ColorMapName(rotation.index) # ColorMapName(rotation.start))

C16_Witness ==
    /\ rotation.calls = Len(COLOR_MAPS)
    /\ rotation.start = 3
    /\ rotation.index = 3

\* C20 as stated: once the constructor of the server has run on a list with a device in
\* it, self.device supports advanced effects and is in self.devices, and no device
\* without advanced effects is left in self.devices.
C20_DeviceIsSupportedAndRetained ==
    (built = "ok" /\ discovered # <<>>)
      => /\ device.advanced
         /\ \E i \in 1..Len(devices) : devices[i] = device
         /\ \A i \in 1..Len(devices) : devices[i].advanced

====
